---- MODULE Spec2Model ----
(***************************************************************************)
(* rust-arity-scan: walk a directory, parse every .rs file, count the      *)
(* parameters of every function declaration, collect the declarations      *)
(* whose arity exceeds a threshold in a BinaryHeap, print them and a       *)
(* summary line.  Model of src/src/main.rs.                                 *)
(***************************************************************************)
EXTENDS Naturals, Integers, Sequences, FiniteSets, Bags, TLC

VARIABLES
    args,          \* env::args(): the argument vector, args[1] the program name
    pc,            \* position of the run
    directory,     \* main: directory
    min_args,      \* main: min_args
    scanned,       \* the entries WalkDir has yielded so far, in walk order
    count,         \* process_file: count (of the file being processed)
    bucket,        \* main: bucket, the BinaryHeap's underlying vector
    total_files,   \* main: total_files
    iter,          \* the records `for el in bucket` has still to yield
    stdout,        \* lines printed to standard output
    exit_code,     \* process exit status, -1 while running
    params_node,   \* count_parameters: params_node (its children's kinds)
    arity_out      \* count_parameters: the value returned, -1 before the call

vars == <<args, pc, directory, min_args, scanned, count, bucket, total_files,
          iter, stdout, exit_code, params_node, arity_out>>

----------------------------------------------------------------------------
(* Bounds *)

MaxFiles == 2      \* directory entries the walk yields
MaxMatches == 3    \* query matches over the whole walk
MaxParams == 2     \* parameters (the receiver included) of a scanned declaration
MaxChildren == 3   \* children of a parameter-list node given to count_parameters

----------------------------------------------------------------------------
(* Small helpers *)

RECURSIVE SeqsUpTo(_, _)
SeqsUpTo(S, n) ==
    IF n = 0 THEN {<<>>}
    ELSE LET shorter == SeqsUpTo(S, n - 1)
         IN  shorter \cup {Append(s, x) : s \in {t \in shorter : Len(t) = n - 1}, x \in S}

RECURSIVE SeqToBag(_)
SeqToBag(s) ==
    IF s = <<>> THEN EmptyBag ELSE SetToBag({Head(s)}) (+) SeqToBag(Tail(s))

RECURSIVE SumLen(_)
SumLen(ss) == IF ss = <<>> THEN 0 ELSE Len(Head(ss)) + SumLen(Tail(ss))

----------------------------------------------------------------------------
(* Command line *)

Digits == <<"0", "1", "2", "3", "4", "5", "6", "7", "8", "9">>

IsDigit(c) == \E i \in 1..Len(Digits) : Digits[i] = c

DigitValue(c) == (CHOOSE i \in 1..Len(Digits) : Digits[i] = c) - 1

\* The texts tried as the threshold argument, as sequences of characters.
ThresholdArgs ==
    { <<>>, <<"0">>, <<"1">>, <<"0", "1">>, <<"+", "1">>, <<"-", "1">>,
      <<"+">>, <<"-">>, <<"x">>, <<"1", "x">> }

ArgVectors ==
    { <<"arity-scan">>, <<"arity-scan", "root">> }
    \cup { <<"arity-scan", "root", t>> : t \in ThresholdArgs }
    \cup { <<"arity-scan", "root", t, <<"x">> >> : t \in {<<"1">>, <<"x">>} }

\* str::parse::<usize>: an optional '+', then one or more decimal digits.
\* The result is [ok |-> BOOLEAN, value |-> Nat].
RECURSIVE FoldDigits(_, _)
FoldDigits(s, acc) ==
    IF s = <<>> THEN [ok |-> TRUE, value |-> acc]
    ELSE IF ~IsDigit(Head(s)) THEN [ok |-> FALSE, value |-> 0]
    ELSE FoldDigits(Tail(s), acc * 10 + DigitValue(Head(s)))

\* A faulty variant of ParseUsize that accepts every text (sensitivity of C9).
LenientParseUsize(s) ==
    IF s = <<>> THEN [ok |-> TRUE, value |-> 0]
    ELSE IF Head(s) \in {"+", "-"} THEN [ok |-> TRUE, value |-> FoldDigits(Tail(s), 0).value]
    ELSE [ok |-> TRUE, value |-> FoldDigits(s, 0).value]

ParseUsize(s) ==
    IF s = <<>> THEN [ok |-> FALSE, value |-> 0]
    ELSE IF s = <<"+">> \/ s = <<"-">> THEN [ok |-> FALSE, value |-> 0]
    ELSE IF Head(s) = "+" THEN FoldDigits(Tail(s), 0)
    ELSE FoldDigits(s, 0)

----------------------------------------------------------------------------
(* Syntax trees: a parameter-list node is the sequence of its children's   *)
(* kinds; a declaration is a query match (name, parameter list, row).      *)

ParameterKinds == {"parameter", "self_parameter", "variadic_parameter"}

ChildKinds == ParameterKinds \cup {","}

RECURSIVE CommaSeparated(_)
CommaSeparated(items) ==
    IF Len(items) <= 1 THEN items
    ELSE <<Head(items), ",">> \o CommaSeparated(Tail(items))

ParamList(items) == <<"(">> \o CommaSeparated(items) \o <<")">>

\* The declarations a scanned file may hold: fn foo(p1, .., pn) and the
\* method fn bar(&self, p1, .., pn), of at most MaxParams parameters.
DeclShapes ==
    { [name |-> "foo", params |-> ParamList([i \in 1..n |-> "parameter"])] : n \in 0..MaxParams }
    \cup
    { [name |-> "bar",
       params |-> ParamList(<<"self_parameter">> \o [i \in 1..n |-> "parameter"])] :
         n \in 0..(MaxParams - 1) }

\* A faulty variant of count_parameters that counts the receiver (sensitivity of C6).
RECURSIVE count_parameters_counting_self(_)
count_parameters_counting_self(node) ==
    IF node = <<>> THEN 0
    ELSE (IF Head(node) \in {"parameter", "self_parameter"} THEN 1 ELSE 0)
         + count_parameters_counting_self(Tail(node))

RECURSIVE count_parameters(_)
count_parameters(node) ==
    IF node = <<>> THEN 0
    ELSE IF Head(node) = "self_parameter" THEN count_parameters(Tail(node))
    ELSE IF Head(node) = "parameter" THEN 1 + count_parameters(Tail(node))
    ELSE count_parameters(Tail(node))

----------------------------------------------------------------------------
(* FnInfo, its ordering and the BinaryHeap *)

\* Path::strip_prefix(base): a path is the sequence of its components.
StripPrefix(path, base) == SubSeq(path, Len(base) + 1, Len(path))

FnInfo(path, name, arity, line) ==
    [path |-> path, name |-> name, arity |-> arity, line |-> line]

\* FnInfo::cmp compares the arities only: a <= b.
FnInfoLe(a, b) == a.arity <= b.arity

Swap(data, i, j) == [data EXCEPT ![i] = data[j], ![j] = data[i]]

\* BinaryHeap::sift_up(0, pos): the element moves up while it is greater
\* than its parent.  Positions are 1-based: the parent of pos is pos \div 2.
RECURSIVE SiftUp(_, _)
SiftUp(data, pos) ==
    IF pos > 1 /\ ~FnInfoLe(data[pos], data[pos \div 2])
    THEN SiftUp(Swap(data, pos, pos \div 2), pos \div 2)
    ELSE data

\* A faulty variant of HeapPush that overwrites the last element (sensitivity of C10).
HeapPushReplacingLast(data, item) ==
    IF data = <<>> THEN <<item>>
    ELSE SiftUp([data EXCEPT ![Len(data)] = item], Len(data))

\* BinaryHeap::push: append, then sift the new element up.
HeapPush(data, item) == SiftUp(Append(data, item), Len(data) + 1)

\* BinaryHeap::into_iter yields the underlying vector front to back.
HeapIntoIter(data) == data

\* A faulty variant of Retained with >= for > (sensitivity of C2).
RetainedAtLeast(arity, threshold) == arity >= threshold

\* process_file: if arity > min_args
Retained(arity, threshold) == arity > threshold

\* A faulty variant of AfterParse that goes on without a tree (sensitivity of C4).
AfterParseIgnoringFailure(tree) == "matches"

\* process_file: parser.parse(..).expect(..): None panics, a tree goes on to
\* the query loop.
AfterParse(tree) == IF tree = "None" THEN "panicked" ELSE "matches"

\* A faulty variant of AddCount that counts files, not records (sensitivity of C8).
AddOne(total, file_count) == total + 1

\* main: total_files += file_count
AddCount(total, file_count) == total + file_count

\* Display for FnInfo: "{path}:{line}: fn {name}/{arity}"
Display(el) ==
    [text |-> "fn", path |-> el.path, line |-> el.line, name |-> el.name,
     arity |-> el.arity, total |-> 0, threshold |-> 0]

\* "\nFound {total_files} functions with more than {min_args} arguments"
SummaryLine(total, threshold) ==
    [text |-> "Found", path |-> <<>>, line |-> 0, name |-> "", arity |-> 0,
     total |-> total, threshold |-> threshold]

----------------------------------------------------------------------------
(* The run *)

Init ==
    /\ args \in ArgVectors
    /\ pc = "start"
    /\ directory = <<>>
    /\ min_args = 0
    /\ scanned = <<>>
    /\ count = 0
    /\ bucket = <<>>
    /\ total_files = 0
    /\ iter = <<>>
    /\ stdout = <<>>
    /\ exit_code = -1
    /\ params_node = <<>>
    /\ arity_out = -1

\* parse_args: fewer than 3 arguments: usage message on stderr, exit(1).
ParseArgsUsage ==
    /\ pc = "start"
    /\ Len(args) < 3
    /\ pc' = "exited"
    /\ exit_code' = 1
    /\ UNCHANGED <<args, directory, min_args, scanned, count, bucket, total_files,
                   iter, stdout, params_node, arity_out>>

\* parse_args: args[2].parse::<usize>().expect(..) panics.
ParseArgsBadThreshold ==
    /\ pc = "start"
    /\ Len(args) >= 3
    /\ ~ParseUsize(args[3]).ok
    /\ pc' = "panicked"
    /\ exit_code' = 101
    /\ UNCHANGED <<args, directory, min_args, scanned, count, bucket, total_files,
                   iter, stdout, params_node, arity_out>>

\* parse_args returns (directory, min_args); main sets up parser, query,
\* total_files = 0 and an empty bucket.
ParseArgsOk ==
    /\ pc = "start"
    /\ Len(args) >= 3
    /\ ParseUsize(args[3]).ok
    /\ directory' = <<args[2]>>
    /\ min_args' = ParseUsize(args[3]).value
    /\ total_files' = 0
    /\ bucket' = <<>>
    /\ args' = <<>>          \* parse_args' local vector is dropped on return
    /\ pc' = "walk"
    /\ UNCHANGED <<scanned, count, iter, stdout, exit_code, params_node, arity_out>>

\* The next directory entry: its path under the root, its extension, whether
\* the walk could produce it, whether its content can be read as UTF-8 and
\* whether the parser returns a tree.
Entry(ext, walk, read, tree) ==
    [path |-> directory \o <<Len(scanned) + 1>>, ext |-> ext, walk |-> walk,
     read |-> read, tree |-> tree, decls |-> <<>>]

\* .filter_map(|e| e.ok()): an entry the walk reports as an error is dropped.
WalkSkipError ==
    /\ pc = "walk"
    /\ Len(scanned) < MaxFiles
    /\ scanned' = Append(scanned, Entry("rs", "Err", "Err", "None"))
    /\ UNCHANGED <<args, pc, directory, min_args, count, bucket, total_files, iter,
                   stdout, exit_code, params_node, arity_out>>

\* .filter(extension == "rs"): an entry with another or no extension is dropped.
WalkSkipExtension ==
    /\ pc = "walk"
    /\ Len(scanned) < MaxFiles
    /\ \E ext \in {"txt", "none"} :
         scanned' = Append(scanned, Entry(ext, "Ok", "Ok", "Some"))
    /\ UNCHANGED <<args, pc, directory, min_args, count, bucket, total_files, iter,
                   stdout, exit_code, params_node, arity_out>>

\* process_file: fs::read_to_string(path)? fails; main's `?` returns the error.
ReadFail ==
    /\ pc = "walk"
    /\ Len(scanned) < MaxFiles
    /\ scanned' = Append(scanned, Entry("rs", "Ok", "Err", "None"))
    /\ pc' = "failed"
    /\ exit_code' = 1
    /\ UNCHANGED <<args, directory, min_args, count, bucket, total_files, iter,
                   stdout, params_node, arity_out>>

\* process_file: parser.parse returns None; expect panics.
ParseFail ==
    /\ pc = "walk"
    /\ Len(scanned) < MaxFiles
    /\ scanned' = Append(scanned, Entry("rs", "Ok", "Ok", "None"))
    /\ pc' = AfterParse("None")
    /\ exit_code' = IF pc' = "panicked" THEN 101 ELSE exit_code
    /\ count' = IF pc' = "panicked" THEN count ELSE 0
    /\ UNCHANGED <<args, directory, min_args, bucket, total_files, iter,
                   stdout, params_node, arity_out>>

\* process_file: the file is read and parsed; count = 0.
BeginFile ==
    /\ pc = "walk"
    /\ Len(scanned) < MaxFiles
    /\ scanned' = Append(scanned, Entry("rs", "Ok", "Ok", "Some"))
    /\ count' = 0
    /\ pc' = AfterParse("Some")
    /\ UNCHANGED <<args, directory, min_args, bucket, total_files, iter, stdout,
                   exit_code, params_node, arity_out>>

TotalMatches == SumLen([i \in 1..Len(scanned) |-> scanned[i].decls])

\* process_file: one iteration of `while let Some(m) = matches.next()`.
NextMatch ==
    /\ pc = "matches"
    /\ TotalMatches < MaxMatches
    /\ \E shape \in DeclShapes :
         LET file == scanned[Len(scanned)]
             decl == [name |-> shape.name, params |-> shape.params,
                      row |-> Len(file.decls)]
             arity == count_parameters(decl.params)
             path == StripPrefix(file.path, directory)
             line == decl.row + 1
         IN  /\ scanned' = [scanned EXCEPT ![Len(scanned)].decls = Append(@, decl)]
             /\ IF Retained(arity, min_args)
                THEN /\ bucket' = HeapPush(bucket, FnInfo(path, decl.name, arity, line))
                     /\ count' = count + 1
                ELSE UNCHANGED <<bucket, count>>
    /\ UNCHANGED <<args, pc, directory, min_args, total_files, iter, stdout,
                   exit_code, params_node, arity_out>>

\* process_file returns Ok(count); main: total_files += file_count.
EndFile ==
    /\ pc = "matches"
    /\ total_files' = AddCount(total_files, count)
    /\ pc' = "walk"
    /\ UNCHANGED <<args, directory, min_args, scanned, count, bucket, iter, stdout,
                   exit_code, params_node, arity_out>>

\* main: the walk is exhausted; `for el in bucket` takes the heap's iterator.
EndWalk ==
    /\ pc = "walk"
    /\ iter' = HeapIntoIter(bucket)
    /\ pc' = "report"
    /\ UNCHANGED <<args, directory, min_args, scanned, count, bucket, total_files,
                   stdout, exit_code, params_node, arity_out>>

\* main: println!("{el}") for the next element of the heap's iterator.
PrintRecord ==
    /\ pc = "report"
    /\ iter # <<>>
    /\ stdout' = Append(stdout, Display(Head(iter)))
    /\ iter' = Tail(iter)
    /\ UNCHANGED <<args, pc, directory, min_args, scanned, count, bucket,
                   total_files, exit_code, params_node, arity_out>>

\* main: the summary line, then Ok(()).
PrintSummary ==
    /\ pc = "report"
    /\ iter = <<>>
    /\ stdout' = Append(stdout, SummaryLine(total_files, min_args))
    /\ pc' = "done"
    /\ exit_code' = 0
    /\ UNCHANGED <<args, directory, min_args, scanned, count, bucket, total_files,
                   iter, params_node, arity_out>>

Next ==
    \/ ParseArgsUsage
    \/ ParseArgsBadThreshold
    \/ ParseArgsOk
    \/ WalkSkipError
    \/ WalkSkipExtension
    \/ ReadFail
    \/ ParseFail
    \/ BeginFile
    \/ NextMatch
    \/ EndFile
    \/ EndWalk
    \/ PrintRecord
    \/ PrintSummary

Spec == Init /\ [][Next]_vars

----------------------------------------------------------------------------
(* count_parameters on its own, over every parameter-list node of up to    *)
(* MaxChildren children.                                                   *)

CountInit ==
    /\ args = <<>>
    /\ pc = "count"
    /\ directory = <<>>
    /\ min_args = 0
    /\ scanned = <<>>
    /\ count = 0
    /\ bucket = <<>>
    /\ total_files = 0
    /\ iter = <<>>
    /\ stdout = <<>>
    /\ exit_code = -1
    /\ params_node \in SeqsUpTo(ChildKinds, MaxChildren)
    /\ arity_out = -1

CountParameters ==
    /\ pc = "count"
    /\ arity_out' = count_parameters(params_node)
    /\ pc' = "counted"
    /\ UNCHANGED <<args, directory, min_args, scanned, count, bucket, total_files,
                   iter, stdout, exit_code, params_node>>

CountNext == CountParameters

CountSpec == CountInit /\ [][CountNext]_vars

----------------------------------------------------------------------------
(* What the run printed and what it scanned *)

Range(s) == {s[i] : i \in DOMAIN s}

IsRecordLine(l) == l.text = "fn"

RecordLines == SelectSeq(stdout, IsRecordLine)

\* An entry that process_file read, parsed and queried.
IsProcessed(e) == e.walk = "Ok" /\ e.ext = "rs" /\ e.read = "Ok" /\ e.tree = "Some"

IsUnreadable(e) == e.walk = "Err" \/ (e.ext = "rs" /\ e.read = "Err")

IsUnparseable(e) == e.walk = "Ok" /\ e.ext = "rs" /\ e.read = "Ok" /\ e.tree = "None"

ProcessedFiles == SelectSeq(scanned, IsProcessed)

\* The record of every matched declaration of a file, in match order.
MatchRecords(e) ==
    [k \in 1..Len(e.decls) |->
        FnInfo(StripPrefix(e.path, directory), e.decls[k].name,
               count_parameters(e.decls[k].params), e.decls[k].row + 1)]

RECURSIVE Flatten(_)
Flatten(ss) == IF ss = <<>> THEN <<>> ELSE Head(ss) \o Flatten(Tail(ss))

AllMatchRecords == Flatten([i \in 1..Len(ProcessedFiles) |-> MatchRecords(ProcessedFiles[i])])

AboveThreshold(r) == r.arity > min_args

DisplayAll(recs) == [i \in 1..Len(recs) |-> Display(recs[i])]

----------------------------------------------------------------------------
(* C1: the record lines main prints are non-decreasing in arity: of any    *)
(* two printed records, the one printed earlier has the smaller or equal   *)
(* arity.                                                                  *)
C1_PrintedNonDecreasing ==
    \A i, j \in 1..Len(RecordLines) :
        i < j => RecordLines[i].arity <= RecordLines[j].arity

(* C2: a matched declaration is reported if and only if its counted arity  *)
(* is strictly greater than min_args: every collected and every printed    *)
(* record has arity > min_args, and when the run is done the printed       *)
(* records are exactly the matched declarations with arity > min_args      *)
(* (none with arity = min_args, none missing, none twice).                 *)
C2_ReportedIffAboveThreshold ==
    /\ \A i \in DOMAIN bucket : bucket[i].arity > min_args
    /\ \A i \in DOMAIN RecordLines : RecordLines[i].arity > min_args
    /\ pc = "done" =>
         SeqToBag(RecordLines)
           = SeqToBag(DisplayAll(SelectSeq(AllMatchRecords, AboveThreshold)))

C2_Witness ==
    /\ pc = "done"
    /\ \E r \in Range(AllMatchRecords) : r.arity = min_args /\ Display(r) \notin Range(stdout)
    /\ \E r \in Range(AllMatchRecords) : r.arity > min_args /\ Display(r) \in Range(stdout)

(* C3: an entry that cannot be stat'd or read is silently skipped: after   *)
(* such an entry the scan goes on (or reports), it never ends the run.     *)
C3_UnreadableEntrySkipped ==
    (scanned # <<>> /\ IsUnreadable(scanned[Len(scanned)]))
        => pc \in {"walk", "report", "done"}

(* C4: if parsing fails for a file the run aborts with a non-zero exit     *)
(* status and nothing at all is printed, whatever was collected from the   *)
(* files processed before it.                                              *)
C4_ParseFailureAbortsWithoutReport ==
    (\E i \in DOMAIN scanned : IsUnparseable(scanned[i]))
        => /\ pc = "panicked"
           /\ exit_code \notin {-1, 0}
           /\ stdout = <<>>

C4_Witness ==
    /\ \E i \in DOMAIN scanned : IsUnparseable(scanned[i])
    /\ pc = "panicked"
    /\ bucket # <<>>

(* C8: the total of the summary line is the number of record lines printed *)
(* and its threshold is min_args; between files the running total equals   *)
(* the number of records collected (within a file it lags by that file's   *)
(* count), so a file without flagged declarations adds nothing.            *)
C8_TotalCountsRecords ==
    /\ pc \in {"walk", "report", "done"} => total_files = Len(bucket)
    /\ pc = "matches" => total_files + count = Len(bucket)
    /\ pc = "done" =>
         /\ stdout[Len(stdout)] = SummaryLine(Len(RecordLines), min_args)
         /\ Len(stdout) = Len(RecordLines) + 1

\* Two files with one flagged declaration each, and a total of 2.
C8_Witness ==
    /\ pc = "done"
    /\ Len(ProcessedFiles) = 2
    /\ \A i \in 1..2 : Len(SelectSeq(MatchRecords(ProcessedFiles[i]), AboveThreshold)) = 1
    /\ stdout[Len(stdout)].total = 2

(* C5: count_parameters returns the number of the node's parameter         *)
(* children that are not the receiver: a plain parameter, a variadic       *)
(* parameter and every other parameter child count 1 each.                 *)
C5_CountsEveryNonReceiverParameter ==
    pc = "counted" =>
        arity_out = Cardinality({i \in DOMAIN params_node :
                                   params_node[i] \in ParameterKinds \ {"self_parameter"}})

IsNotReceiver(kind) == kind # "self_parameter"

RECURSIVE PushRetained(_, _)
PushRetained(heap, recs) ==
    IF recs = <<>> THEN heap
    ELSE PushRetained(IF Retained(Head(recs).arity, min_args)
                      THEN HeapPush(heap, Head(recs)) ELSE heap,
                      Tail(recs))

RECURSIVE CollectInOrder(_, _)
CollectInOrder(files, heap) ==
    IF files = <<>> THEN heap
    ELSE CollectInOrder(Tail(files), PushRetained(heap, MatchRecords(Head(files))))

ReportOf(files) == DisplayAll(HeapIntoIter(CollectInOrder(files, <<>>)))

Reordered(perm) == [i \in 1..Len(ProcessedFiles) |-> ProcessedFiles[perm[i]]]

SameUpToTies(a, b) ==
    /\ Len(a) = Len(b)
    /\ \A i \in 1..Len(a) : a[i].arity = b[i].arity
    /\ SeqToBag(a) = SeqToBag(b)

(* C7: the report does not depend on the order in which the files are      *)
(* processed: processing the same files in any other order prints the same *)
(* sequence of records, up to the order of records of equal arity, and the *)
(* same summary line.                                                      *)
C7_ReportOrderIndependent ==
    pc = "done" =>
        \A perm \in Permutations(1..Len(ProcessedFiles)) :
            /\ SameUpToTies(RecordLines, ReportOf(Reordered(perm)))
            /\ stdout[Len(stdout)]
                 = SummaryLine(Len(ReportOf(Reordered(perm))), min_args)

\* The text of a non-negative integer: digits, after an optional '+'.
IsNonNegativeInteger(s) ==
    LET d == IF s # <<>> /\ Head(s) = "+" THEN Tail(s) ELSE s
    IN  d # <<>> /\ \A i \in DOMAIN d : IsDigit(d[i])

UsageError == Len(args) < 3 \/ ~IsNonNegativeInteger(args[3])

(* C9: a usage error (fewer than 2 arguments after the program name, or a  *)
(* threshold that is not a non-negative integer) ends the run at its first *)
(* step with a non-zero exit status, nothing scanned and nothing printed,  *)
(* and the run takes no step after that.                                   *)
C9_UsageErrorFatalBeforeScan ==
    [][ /\ (pc = "start" /\ UsageError)
             => /\ pc' \in {"exited", "panicked"}
                /\ exit_code' \notin {-1, 0}
                /\ scanned' = <<>>
                /\ stdout' = <<>>
        /\ pc \in {"exited", "panicked"} => FALSE ]_vars

C9_Witness ==
    /\ pc = "panicked"
    /\ Len(args) >= 3
    /\ args[3] = <<"-", "1">>
    /\ scanned = <<>>
    /\ exit_code = 101

(* C10: the result collection is append-only during the scan and consumed  *)
(* exactly once: a step of the scan keeps every record already collected,  *)
(* lines are printed only once the walk is over (no entry is scanned and   *)
(* no record collected after that), and when the run is done every         *)
(* collected record has been printed exactly once, before the summary,     *)
(* which is the last line.                                                 *)
C10_AppendOnlyPrintedOnce ==
    [][ /\ pc \in {"walk", "matches"} => SeqToBag(bucket) \sqsubseteq SeqToBag(bucket')
        /\ pc = "report" => bucket' = bucket /\ scanned' = scanned
        /\ stdout' # stdout => pc = "report"
        /\ pc' = "done" =>
             /\ SeqToBag(SubSeq(stdout', 1, Len(stdout') - 1))
                  = SeqToBag(DisplayAll(bucket'))
             /\ stdout'[Len(stdout')].text = "Found" ]_vars

C10_Witness ==
    /\ pc = "done"
    /\ Len(bucket) >= 2
    /\ Len(stdout) = Len(bucket) + 1

====
